---------------------------- MODULE Spec2Model ----------------------------
(***************************************************************************)
(* wal (pywal 0.1.6): palette generation, caching, terminal sequences and  *)
(* export documents, modelled from src/pywal/__init__.py.                  *)
(*                                                                         *)
(* Text is modelled character by character: a Python str is a sequence of  *)
(* one-character strings.  The two control bytes that occur are written    *)
(* "ESC" (0x1B) and "BEL" (0x07).                                          *)
(***************************************************************************)
EXTENDS Integers, Sequences, FiniteSets, TLC

(***************************************************************************)
(* Bounds of the model.                                                    *)
(***************************************************************************)
\* program invocations (main) explored in one behaviour
MaxRuns == 2
\* quantizer invocations explored in one run of gen_colors
MaxAttempts == 3
\* calls of send_sequences + export_colors inside one interpreter
MaxRenders == 2

\* COLOR_COUNT (line 17)
COLOR_COUNT == 16

Procs == {1, 2}

(***************************************************************************)
(* Python built-ins used by the program.                                   *)
(***************************************************************************)
Digits == <<"0","1","2","3","4","5","6","7","8","9">>

IsDigit(c) == \E k \in 1..10 : Digits[k] = c

\* int(c) for a one-character decimal string
DigitVal(c) == (CHOOSE k \in 1..10 : Digits[k] = c) - 1

HexLower == <<"0","1","2","3","4","5","6","7","8","9","a","b","c","d","e","f">>

HexUpper == <<"0","1","2","3","4","5","6","7","8","9","A","B","C","D","E","F">>

IsHex(c) == \E k \in 1..16 : HexLower[k] = c \/ HexUpper[k] = c

HexVal(c) == (CHOOSE k \in 1..16 : HexLower[k] = c \/ HexUpper[k] = c) - 1

\* f"{n}" for a natural number
RECURSIVE Str(_)
Str(n) ==
    IF n < 10 THEN <<Digits[n + 1]>>
    ELSE Str(n \div 10) \o <<Digits[(n % 10) + 1]>>

\* chr(n) for the code points that occur
Chr(n) ==
    CASE n = 27 -> "ESC"
      [] n = 7  -> "BEL"
      [] OTHER  -> "chr" \o ToString(n)

\* sep.join(list); the recursion halves the list
RECURSIVE join(_, _)
join(sep, list) ==
    IF list = <<>> THEN <<>>
    ELSE IF Len(list) = 1 THEN list[1]
    ELSE LET h == Len(list) \div 2
         IN  join(sep, SubSeq(list, 1, h)) \o sep
                 \o join(sep, SubSeq(list, h + 1, Len(list)))

\* str.splitlines() of text read in text mode: "\n", "\r" and "\r\n" end a
\* line; a last line without a line end is kept when it is not empty.
splitlines(s) ==
    LET n     == Len(s)
        IsEnd(i) == \/ s[i] = "\n"
                    \/ s[i] = "\r" /\ ~(i < n /\ s[i + 1] = "\n")
        ends  == {i \in 1..n : IsEnd(i)}
        last  == IF ends = {} THEN 0
                 ELSE CHOOSE i \in ends : \A j \in ends : j <= i
        count == Cardinality(ends) + (IF last < n THEN 1 ELSE 0)
        EndOf(k) == IF k <= Cardinality(ends)
                    THEN CHOOSE i \in ends :
                             Cardinality({j \in ends : j < i}) = k - 1
                    ELSE n + 1
        StartOf(k) == IF k = 1 THEN 1 ELSE EndOf(k - 1) + 1
        Stop(k) == LET e == EndOf(k)
                   IN  IF e <= n /\ s[e] = "\n" /\ e > StartOf(k)
                          /\ s[e - 1] = "\r"
                       THEN e - 2 ELSE e - 1
    IN  [k \in 1..count |-> SubSeq(s, StartOf(k), Stop(k))]

\* "." of a regular expression: any character but a line feed
Dot(c) == c /= "\n"

\* re.search("#.{6}", s).group(0); <<>> stands for None (no match)
re_search_hex(s) ==
    LET n    == Len(s)
        hits == {i \in 1..n : /\ s[i] = "#"
                              /\ i + 6 <= n
                              /\ \A j \in (i + 1)..(i + 6) : Dot(s[j])}
    IN  IF hits = {} THEN <<>>
        ELSE LET i == CHOOSE h \in hits : \A g \in hits : h <= g
             IN  SubSeq(s, i, i + 6)

\* the places where r"\]708;\#.{6}" matches in s
Matches708(s) ==
    {i \in 1..Len(s) : /\ i + 11 <= Len(s)
                       /\ SubSeq(s, i, i + 5) = <<"]","7","0","8",";","#">>
                       /\ \A j \in (i + 6)..(i + 11) : Dot(s[j])}

\* the leftmost non-overlapping matches among m, scanning from place `from`
RECURSIVE Leftmost(_, _)
Leftmost(m, from) ==
    LET rest == {i \in m : i >= from}
    IN  IF rest = {} THEN {}
        ELSE LET i == CHOOSE h \in rest : \A g \in rest : h <= g
             IN  {i} \cup Leftmost(m, i + 12)

\* re.sub(r"\]708;\#.{6}", "", s)
re_sub_708(s) ==
    LET taken == Leftmost(Matches708(s), 1)
        gone  == {j \in 1..Len(s) : \E i \in taken : i <= j /\ j <= i + 11}
        mark  == [j \in 1..Len(s) |-> IF j \in gone THEN "" ELSE s[j]]
    IN  SelectSeq(mark, LAMBDA c : c /= "")

IsOctal(c) == \E k \in 1..8 : Digits[k] = c

\* bytes(string, "utf-8").decode("unicode_escape") for ASCII text whose only
\* escapes are octal ones (a backslash and one to three octal digits): the
\* builders below write no other escape.
fix_escape(string) ==
    LET n == Len(string)
        Oct(i) == i <= n /\ IsOctal(string[i])
        \* the number of octal digits that follow the backslash at i
        Run(i) == IF ~Oct(i + 1) THEN 0
                  ELSE IF ~Oct(i + 2) THEN 1
                  ELSE IF ~Oct(i + 3) THEN 2 ELSE 3
        IsEsc(i) == string[i] = "\\" /\ Run(i) > 0
        Val(i) == LET r == Run(i)
                      d(k) == DigitVal(string[i + k])
                  IN  IF r = 1 THEN d(1)
                      ELSE IF r = 2 THEN 8 * d(1) + d(2)
                      ELSE (64 * d(1) + 8 * d(2) + d(3)) % 256
        Eaten(j) == \E i \in {j - 1, j - 2, j - 3} :
                        i >= 1 /\ IsEsc(i) /\ j <= i + Run(i)
        mark == [j \in 1..n |->
                    IF IsEsc(j) THEN Chr(Val(j))
                    ELSE IF Eaten(j) THEN ""
                    ELSE string[j]]
    IN  SelectSeq(mark, LAMBDA c : c /= "")

\* color.strip("#")
strip_hash(color) ==
    LET n    == Len(color)
        keep == {i \in 1..n : color[i] /= "#"}
    IN  IF keep = {} THEN <<>>
        ELSE LET a == CHOOSE i \in keep : \A j \in keep : i <= j
                 b == CHOOSE i \in keep : \A j \in keep : j <= i
             IN  SubSeq(color, a, b)

\* hex_to_rgb raises ValueError: bytes.fromhex rejects the text, or it does
\* not unpack into exactly three bytes
hex_to_rgb_raises(color) ==
    LET h == strip_hash(color)
    IN  ~(Len(h) = 6 /\ \A i \in 1..6 : IsHex(h[i]))

hex_to_rgb(color) ==
    LET h     == strip_hash(color)
        red   == 16 * HexVal(h[1]) + HexVal(h[2])
        green == 16 * HexVal(h[3]) + HexVal(h[4])
        blue  == 16 * HexVal(h[5]) + HexVal(h[6])
    IN  Str(red) \o <<",">> \o Str(green) \o <<",">> \o Str(blue)

(***************************************************************************)
(* The Palette Mapper.                                                     *)
(***************************************************************************)
\* int(colors[0][1]) raises ValueError for anything but a decimal digit
set_grey_raises(colors) == ~IsDigit(colors[1][2])

GreyTable ==
    [k \in 0..9 |->
        CASE k \in {0, 1} -> <<"#","6","6","6","6","6","6">>
          [] k = 2        -> <<"#","7","5","7","5","7","5">>
          [] k \in {3, 4} -> <<"#","9","9","9","9","9","9">>
          [] k = 5        -> <<"#","8","a","8","a","8","a">>
          [] OTHER        -> <<"#","a","1","a","1","a","1">>]

\* {...}.get(int(colors[0][1]), colors[7])
set_grey(colors) ==
    LET k == DigitVal(colors[1][2])
    IN  IF k \in DOMAIN GreyTable THEN GreyTable[k] ELSE colors[8]

\* sort_colors raises: an index past the end, or set_grey raising
sort_colors_raises(colors) == Len(colors) < 16 \/ set_grey_raises(colors)

sort_colors(colors) ==
    <<colors[1], colors[10], colors[11], colors[12], colors[13], colors[14],
      colors[15], colors[16], set_grey(colors), colors[10], colors[11],
      colors[12], colors[13], colors[14], colors[15], colors[16]>>

(***************************************************************************)
(* ColorType: the class-level accumulators, and the builders that append   *)
(* to them.  A builder takes the accumulators and returns them updated.    *)
(***************************************************************************)
ColorType0 ==
    [plain     |-> <<>>,
     xrdb      |-> <<>>,
     sequences |-> <<>>,
     shell     |-> <<>>,
     scss      |-> <<>>,
     css       |-> << <<":","r","o","o","t"," ","{">> >>,
     putty     |-> << <<"W","i","n","d","o","w","s"," ","R","e","g","i","s","t","r","y"," ","E","d","i","t","o","r"," ","V","e","r","s","i","o","n"," ","5",".","0","0">>,
                      <<"[","H","K","E","Y","_","C","U","R","R","E","N","T","_","U","S","E","R","\\","S","o","f","t","w","a","r","e","\\","S","i","m","o","n","T","a","t","h","a","m","\\","P","u","T","T","Y","\\","S","e","s","s","i","o","n","s","\\","W","a","l","]">> >>]

set_special(ct, idx, color) ==
    LET seq1 == Append(ct.sequences,
                       <<"\\","0","3","3","]">> \o Str(idx) \o <<";">> \o color \o <<"\\","0","0","7">>)
    IN  IF idx = 10 THEN
            [ct EXCEPT !.sequences = seq1,
                       !.xrdb = @ \o << <<"U","R","x","v","t","*","f","o","r","e","g","r","o","u","n","d",":"," ">> \o color,
                                       <<"X","T","e","r","m","*","f","o","r","e","g","r","o","u","n","d",":"," ">> \o color >>]
        ELSE IF idx = 11 THEN
            [ct EXCEPT !.sequences = seq1,
                       !.xrdb = @ \o << <<"U","R","x","v","t","*","b","a","c","k","g","r","o","u","n","d",":"," ">> \o color,
                                       <<"X","T","e","r","m","*","b","a","c","k","g","r","o","u","n","d",":"," ">> \o color >>]
        ELSE IF idx = 12 THEN
            [ct EXCEPT !.sequences = seq1,
                       !.xrdb = @ \o << <<"U","R","x","v","t","*","c","u","r","s","o","r","C","o","l","o","r",":"," ">> \o color,
                                       <<"X","T","e","r","m","*","c","u","r","s","o","r","C","o","l","o","r",":"," ">> \o color >>]
        ELSE IF idx = 66 THEN
            [ct EXCEPT !.sequences =
                           Append(seq1, <<"\\","0","3","3","]","4",";">> \o Str(idx) \o <<";">>
                                            \o color \o <<"\\","0","0","7">>),
                       !.xrdb = @ \o << <<"*",".","c","o","l","o","r">> \o Str(idx) \o <<":"," ">> \o color,
                                       <<"*","c","o","l","o","r">> \o Str(idx) \o <<":"," ">> \o color >>]
        ELSE [ct EXCEPT !.sequences = seq1]

set_color(ct, idx, color) ==
    [ct EXCEPT
        !.xrdb = @ \o << <<"*",".","c","o","l","o","r">> \o Str(idx) \o <<":"," ">> \o color,
                        <<"*","c","o","l","o","r">> \o Str(idx) \o <<":"," ">> \o color >>,
        !.sequences = Append(@, <<"\\","0","3","3","]","4",";">> \o Str(idx) \o <<";">> \o color
                                    \o <<"\\","0","0","7">>),
        !.shell = Append(@, <<"c","o","l","o","r">> \o Str(idx) \o <<"=","'">> \o color \o <<"'">>),
        !.css = Append(@, <<"\t","-","-","c","o","l","o","r">> \o Str(idx) \o <<":"," ">> \o color \o <<";">>),
        !.scss = Append(@, <<"$","c","o","l","o","r">> \o Str(idx) \o <<":"," ">> \o color \o <<";">>),
        !.putty = Append(@, <<"\"","C","o","l","o","u","r">> \o Str(idx) \o <<"\"","=","\"">>
                                \o hex_to_rgb(color) \o <<"\"">>)]

\* [set_color(num, color) for num, color in enumerate(colors)], from num on
RECURSIVE set_colors(_, _, _)
set_colors(ct, colors, num) ==
    IF num >= Len(colors) THEN ct
    ELSE set_colors(set_color(ct, num, colors[num + 1]), colors, num + 1)

\* send_sequences raises before it writes anything: colors[15] past the end
\* (IndexError), or hex_to_rgb raising inside set_color (ValueError)
send_sequences_raises(colors) ==
    \/ Len(colors) < 16
    \/ \E i \in 1..Len(colors) : hex_to_rgb_raises(colors[i])

\* send_sequences without the test of vte
send_sequences_build_always708(ct, colors, vte) ==
    LET c1 == set_special(ct, 10, colors[16])
        c2 == set_special(c1, 11, colors[1])
        c3 == set_special(c2, 12, colors[16])
        c4 == set_special(c3, 13, colors[16])
        c5 == set_special(c4, 14, colors[1])
        c6 == set_special(c5, 708, colors[1])
        c7 == set_colors(c6, colors, 0)
    IN  set_special(c7, 66, colors[1])

\* the accumulators after lines 312 to 327 of send_sequences
send_sequences_build(ct, colors, vte) ==
    LET c1 == set_special(ct, 10, colors[16])
        c2 == set_special(c1, 11, colors[1])
        c3 == set_special(c2, 12, colors[16])
        c4 == set_special(c3, 13, colors[16])
        c5 == set_special(c4, 14, colors[1])
        c6 == IF ~vte THEN set_special(c5, 708, colors[1]) ELSE c5
        c7 == set_colors(c6, colors, 0)
    IN  set_special(c7, 66, colors[1])

export_rofi(ct, colors) ==
    [ct EXCEPT !.xrdb = @ \o
        << <<"r","o","f","i",".","c","o","l","o","r","-","w","i","n","d","o","w",":"," ">> \o colors[1] \o <<","," ">> \o colors[1] \o <<","," ">>
               \o colors[11],
           <<"r","o","f","i",".","c","o","l","o","r","-","n","o","r","m","a","l",":"," ">> \o colors[1] \o <<","," ">> \o colors[16] \o <<","," ">>
               \o colors[1] \o <<","," ">> \o colors[11] \o <<","," ">> \o colors[1],
           <<"r","o","f","i",".","c","o","l","o","r","-","a","c","t","i","v","e",":"," ">> \o colors[1] \o <<","," ">> \o colors[16] \o <<","," ">>
               \o colors[1] \o <<","," ">> \o colors[11] \o <<","," ">> \o colors[1],
           <<"r","o","f","i",".","c","o","l","o","r","-","u","r","g","e","n","t",":"," ">> \o colors[1] \o <<","," ">> \o colors[10] \o <<","," ">>
               \o colors[1] \o <<","," ">> \o colors[10] \o <<","," ">> \o colors[16] >>]

export_emacs(ct, colors) ==
    [ct EXCEPT !.xrdb = @ \o << <<"e","m","a","c","s","*","b","a","c","k","g","r","o","u","n","d",":"," ">> \o colors[1],
                               <<"e","m","a","c","s","*","f","o","r","e","g","r","o","u","n","d",":"," ">> \o colors[16] >>]

\* the accumulators when export_colors has run (lines 482, 490, 491)
export_colors_build(ct, colors) ==
    export_emacs(export_rofi([ct EXCEPT !.css = Append(@, <<"}">>)], colors),
                 colors)

(***************************************************************************)
(* Files.                                                                  *)
(***************************************************************************)
NoFile == [exists |-> FALSE, data |-> <<>>]

\* the file after save_file(colors, export_file)
save_file(colors) == [exists |-> TRUE, data |-> colors]

\* the file after open(export_file, "w"), before anything is written
open_w == [exists |-> TRUE, data |-> <<>>]

\* read_file reading at most COLOR_COUNT lines
read_file_16(input_file) ==
    LET l == splitlines(input_file.data)
    IN  IF Len(l) > COLOR_COUNT THEN SubSeq(l, 1, COLOR_COUNT) ELSE l

\* read_file with split("\n") in place of splitlines()
read_file_split(input_file) ==
    LET s == input_file.data
    IN  IF s = <<>> THEN << <<>> >>
        ELSE IF s[Len(s)] = "\n" THEN Append(splitlines(s), <<>>)
        ELSE splitlines(s)

\* open(input_file).read().splitlines()
read_file(input_file) == splitlines(input_file.data)

\* colors = "\n".join(colors); save_file(f"{colors}\n", ...)
save_colors(colors) == save_file(join(<<"\n">>, colors) \o <<"\n">>)

\* img.replace("/", "_")
sanitize(img) == [i \in DOMAIN img |-> IF img[i] = "/" THEN "_" ELSE img[i]]

(***************************************************************************)
(* The quantizer (ImageMagick's convert), an external program: what it     *)
(* prints is an input of the model.  A response is empty (convert failed)  *)
(* or a header line followed by one line per color.                        *)
(***************************************************************************)
\* the k-th color (from 0) that a request for color_count colors yields on
\* an image of the swatch family f: its second character is the hex digit
\* (f.d + k) % 16, so raw[0][1] is the digit f.d; the colors differ from one
\* requested count to the next
SwatchColor(f, color_count, k) ==
    LET hx == IF f.upper THEN HexUpper ELSE HexLower
    IN  <<"#", hx[((f.d + k) % 16) + 1], hx[(k % 16) + 1],
          hx[(k \div 16) + 1], "8", hx[(color_count % 16) + 1], hx[f.d + 1]>>

\* one line of convert's "txt:-" output, as readlines() returns it
SwatchLine(f, color_count, k) ==
    Str(k) \o <<",","0",":"," ","(","8",",","0",",","8",")"," "," ">> \o SwatchColor(f, color_count, k)
        \o <<" "," ","s","r","g","b","\n">>

HeaderLine == <<"#"," ","I","m","a","g","e","M","a","g","i","c","k"," ","p","i","x","e","l"," ","e","n","u","m","e","r","a","t","i","o","n",":"," ","1",",","1","6",",","2","5","5",",","s","r","g","b","\n">>

\* a response of n colors to a request for color_count colors
Response(f, color_count, n) ==
    <<HeaderLine>> \o [k \in 1..n |-> SwatchLine(f, color_count, k - 1)]

Images == {<<"/","a","/","b">>, <<"/","c">>}

\* the swatch family of each image: color 0 of /a/b has the second character
\* "3", color 0 of /c has the second character "C"
Family(img) ==
    IF img = <<"/","a","/","b">> THEN [d |-> 3, upper |-> FALSE]
    ELSE [d |-> 12, upper |-> TRUE]

\* colors.stdout.readlines() of imagemagick(color_count, img): nothing at
\* all, one color too few for a palette, or as many colors as requested
imagemagick(color_count, img) ==
    {<<>>} \cup {Response(Family(img), color_count, n) :
                    n \in {COLOR_COUNT - 1, color_count}}

\* str(col) of a bytes line: b'...' with the line feed written as \n
str_bytes(col) ==
    LET esc == [i \in 1..Len(col) |->
                   IF col[i] = "\n" THEN <<"\\","n">> ELSE <<col[i]>>]
    IN  <<"b","'">> \o join(<<>>, esc) \o <<"'">>

\* re.search("#.{6}", str(col)) is None for some line: .group raises
gen_colors_raises(raw_colors) ==
    \E i \in 2..Len(raw_colors) : re_search_hex(str_bytes(raw_colors[i])) = <<>>

\* gen_colors without del raw_colors[0]
gen_colors_keeps_header(raw_colors) ==
    [i \in 1..Len(raw_colors) |-> re_search_hex(str_bytes(raw_colors[i]))]

\* del raw_colors[0]; [re.search("#.{6}", str(col)).group(0) for col in ...]
gen_colors_result(raw_colors) ==
    [i \in 1..(Len(raw_colors) - 1) |->
        re_search_hex(str_bytes(raw_colors[i + 1]))]

(***************************************************************************)
(* State.                                                                  *)
(***************************************************************************)
VARIABLES
    pc,          \* pc[p]: where process p is ("off": not running)
    args,        \* args[p]: the parsed arguments -i, -t, -r
    raw_colors,  \* raw_colors[p]: gen_colors' last quantizer response
    index,       \* index[p]: gen_colors' retry counter
    colors,      \* colors[p]: get_colors' local `colors`
    ColorType,   \* ColorType[p]: the class-level accumulators
    terminals,   \* terminals[p]: the broadcast targets not yet written
    sequences,   \* sequences[p]: send_sequences' decoded blob
    stdout,      \* stdout[p]: what the process has written to its stdout
    err,         \* err[p]: the exception that ended the process, or ""
    renders,     \* renders[p]: calls of send_sequences in this interpreter
    calls,       \* calls[p]: the counts requested of the quantizer so far
    hit,         \* hit[p]: get_colors found the cache file
    schemes,     \* the files of CACHE_DIR/schemes, by name
    cache,       \* the other files of CACHE_DIR, by name
    pts,         \* the entries of /dev/pts, by name
    sent,        \* sent[p]: what p has written to each terminal
    generated,   \* generated[img]: the palette get_colors last generated
    runs         \* program invocations so far

vars == <<pc, args, raw_colors, index, colors, ColorType, terminals,
          sequences, stdout, err, renders, calls, hit, schemes, cache, pts,
          sent, generated, runs>>

CacheNames == {"wal", "sequences", "colors", "colors.sh", "colors.css",
               "colors.scss", "colors-putty.reg", "xcolors"}

PtsNames == {<<"0">>, <<"1">>, <<"p","t","m","x">>}

NoArgs == [i |-> <<>>, t |-> FALSE, r |-> FALSE]

\* the command lines explored: -i image [-t], and -r [-t]
ArgSets ==
    {[i |-> img, t |-> t, r |-> FALSE] : img \in Images, t \in BOOLEAN}
        \cup {[i |-> <<>>, t |-> t, r |-> TRUE] : t \in BOOLEAN}

\* scheme cache files left by earlier runs: a palette of 16 lines, one of 17
\* lines, two lines with a line feed at the end, and an empty file
CachedSchemes ==
    {save_file(join(<<"\n">>, sort_colors(
                   [k \in 1..16 |->
                       SwatchColor([d |-> 6, upper |-> FALSE], 16, k - 1)]))),
     save_file(join(<<"\n">>, [k \in 1..17 |->
                       SwatchColor([d |-> 1, upper |-> TRUE], 17, k - 1)])),
     save_file(<<"#","1","1","2","2","3","3","\n","#","4","4","5","5","6","6","\n">>),
     open_w}

\* the orders in which os.listdir may return the members of a set
RECURSIVE Orders(_)
Orders(S) ==
    IF S = {} THEN {<<>>}
    ELSE UNION {{<<x>> \o o : o \in Orders(S \ {x})} : x \in S}

\* the state of a process that is not running
Idle(f) == [p \in Procs |-> f]

Init ==
    /\ pc = Idle("off")
    /\ args = Idle(NoArgs)
    /\ raw_colors = Idle(<<>>)
    /\ index = Idle(0)
    /\ colors = Idle(<<>>)
    /\ ColorType = Idle(ColorType0)
    /\ terminals = Idle(<<>>)
    /\ sequences = Idle(<<>>)
    /\ stdout = Idle(<<>>)
    /\ err = Idle("")
    /\ renders = Idle(0)
    /\ calls = Idle(<<>>)
    /\ hit = Idle(FALSE)
    /\ \E f \in CachedSchemes \cup {NoFile} :
           schemes = [n \in {sanitize(img) : img \in Images} |->
                         IF n = sanitize(<<"/","a","/","b">>) THEN f ELSE NoFile]
    /\ cache = [n \in CacheNames |-> NoFile]
    /\ \E w \in BOOLEAN :
           pts = [n \in PtsNames |->
                     [writable |-> IF n = <<"0">> THEN w ELSE TRUE]]
    /\ sent = Idle([n \in PtsNames |-> <<>>])
    /\ generated = [img \in Images |-> <<>>]
    /\ runs = 0

(***************************************************************************)
(* Actions.  Each takes the process p that performs it.                    *)
(***************************************************************************)
\* main and process_args: a fresh interpreter starts with the arguments a
\* and dispatches on -r and -i
main(p, a) ==
    /\ pc[p] = "off"
    /\ runs < MaxRuns
    /\ runs' = runs + 1
    /\ args' = [args EXCEPT ![p] = a]
    /\ pc' = [pc EXCEPT ![p] = IF a.r THEN "reload_colors" ELSE "get_colors"]
    /\ UNCHANGED <<raw_colors, index, colors, ColorType, terminals,
                   sequences, stdout, err, renders, calls, hit, schemes,
                   cache, pts, sent, generated>>

\* get_colors up to the test of the cache file
get_colors(p) ==
    /\ pc[p] = "get_colors"
    /\ cache' = [cache EXCEPT !["wal"] = save_file(args[p].i)]
    /\ IF schemes[sanitize(args[p].i)].exists
       THEN /\ pc' = [pc EXCEPT ![p] = "read_file"]
            /\ hit' = [hit EXCEPT ![p] = TRUE]
       ELSE /\ pc' = [pc EXCEPT ![p] = "gen_colors"]
            /\ hit' = hit
    /\ UNCHANGED <<args, raw_colors, index, colors, ColorType, terminals,
                   sequences, stdout, err, renders, calls, schemes, pts, sent,
                   generated, runs>>

\* the cache-hit branch: colors = read_file(cache_file); return colors
get_colors_read(p) ==
    /\ pc[p] = "read_file"
    /\ colors' = [colors EXCEPT
                     ![p] = read_file(schemes[sanitize(args[p].i)])]
    /\ ColorType' = [ColorType EXCEPT ![p].plain = colors'[p]]
    /\ pc' = [pc EXCEPT ![p] = "send_sequences"]
    /\ UNCHANGED <<args, raw_colors, index, terminals, sequences, stdout,
                   err, renders, calls, hit, schemes, cache, pts, sent, generated,
                   runs>>

\* gen_colors: the first quantizer invocation, with COLOR_COUNT
gen_colors(p) ==
    /\ pc[p] = "gen_colors"
    /\ \E out \in imagemagick(COLOR_COUNT, args[p].i) :
           /\ raw_colors' = [raw_colors EXCEPT ![p] = out]
           /\ calls' = [calls EXCEPT ![p] = Append(@, COLOR_COUNT)]
    /\ index' = [index EXCEPT ![p] = 0]
    /\ pc' = [pc EXCEPT ![p] = "gen_loop"]
    /\ UNCHANGED <<args, colors, ColorType, terminals, sequences, stdout,
                   err, renders, hit, schemes, cache, pts, sent, generated, runs>>

\* one turn of the while loop of gen_colors
gen_colors_retry(p) ==
    /\ pc[p] = "gen_loop"
    /\ Len(raw_colors[p]) - 1 < COLOR_COUNT
    /\ Len(calls[p]) < MaxAttempts
    /\ index' = [index EXCEPT ![p] = @ + 1]
    /\ \E out \in imagemagick(COLOR_COUNT + index'[p], args[p].i) :
           /\ raw_colors' = [raw_colors EXCEPT ![p] = out]
           /\ calls' = [calls EXCEPT
                             ![p] = Append(@, COLOR_COUNT + index'[p])]
    /\ UNCHANGED <<pc, args, colors, ColorType, terminals, sequences, stdout,
                   err, renders, hit, schemes, cache, pts, sent, generated, runs>>

\* the loop ends: gen_colors drops the header and returns the hex colors
gen_colors_return(p) ==
    /\ pc[p] = "gen_loop"
    /\ ~(Len(raw_colors[p]) - 1 < COLOR_COUNT)
    /\ IF gen_colors_raises(raw_colors[p])
       THEN /\ pc' = [pc EXCEPT ![p] = "crashed"]
            /\ err' = [err EXCEPT ![p] = "AttributeError"]
            /\ colors' = colors
       ELSE /\ pc' = [pc EXCEPT ![p] = "sort_colors"]
            /\ err' = err
            /\ colors' = [colors EXCEPT
                             ![p] = gen_colors_result(raw_colors[p])]
    /\ UNCHANGED <<args, raw_colors, index, ColorType, terminals, sequences,
                   stdout, renders, calls, hit, schemes, cache, pts, sent,
                   generated, runs>>

\* colors = sort_colors(colors)
get_colors_sort(p) ==
    /\ pc[p] = "sort_colors"
    /\ IF sort_colors_raises(colors[p])
       THEN /\ pc' = [pc EXCEPT ![p] = "crashed"]
            /\ err' = [err EXCEPT ![p] =
                          IF Len(colors[p]) < 16 THEN "IndexError"
                          ELSE "ValueError"]
            /\ colors' = colors
       ELSE /\ pc' = [pc EXCEPT ![p] = "save_open"]
            /\ err' = err
            /\ colors' = [colors EXCEPT ![p] = sort_colors(colors[p])]
    /\ raw_colors' = [raw_colors EXCEPT ![p] = <<>>]
    /\ UNCHANGED <<args, index, ColorType, terminals, sequences, stdout,
                   renders, calls, hit, schemes, cache, pts, sent, generated, runs>>

\* save_file("\n".join(colors), cache_file): open(export_file, "w")
get_colors_open(p) ==
    /\ pc[p] = "save_open"
    /\ schemes' = [schemes EXCEPT ![sanitize(args[p].i)] = open_w]
    /\ pc' = [pc EXCEPT ![p] = "save_write"]
    /\ UNCHANGED <<args, raw_colors, index, colors, ColorType, terminals,
                   sequences, stdout, err, renders, calls, hit, cache, pts, sent,
                   generated, runs>>

\* get_colors_write on a file opened with "a": the write appends
get_colors_write_append(p) ==
    /\ pc[p] = "save_write"
    /\ schemes' = [schemes EXCEPT ![sanitize(args[p].i)] =
                      save_file(@.data \o join(<<"\n">>, colors[p]))]
    /\ ColorType' = [ColorType EXCEPT ![p].plain = colors[p]]
    /\ generated' = [generated EXCEPT ![args[p].i] = colors[p]]
    /\ pc' = [pc EXCEPT ![p] = "send_sequences"]
    /\ UNCHANGED <<args, raw_colors, index, colors, terminals, sequences,
                   stdout, err, renders, calls, hit, cache, pts, sent, runs>>

\* file.write(colors) and the close; get_colors returns the palette
get_colors_write(p) ==
    /\ pc[p] = "save_write"
    /\ schemes' = [schemes EXCEPT ![sanitize(args[p].i)] =
                      save_file(join(<<"\n">>, colors[p]))]
    /\ ColorType' = [ColorType EXCEPT ![p].plain = colors[p]]
    /\ generated' = [generated EXCEPT ![args[p].i] = colors[p]]
    /\ pc' = [pc EXCEPT ![p] = "send_sequences"]
    /\ UNCHANGED <<args, raw_colors, index, colors, terminals, sequences,
                   stdout, err, renders, calls, hit, cache, pts, sent, runs>>

\* the broadcast targets: every entry of /dev/pts with a name shorter than
\* four characters, in the order os.listdir returns them, then the file
\* CACHE_DIR/sequences
Terminals ==
    {[o EXCEPT ![Len(o)] = [kind |-> "cache", name |-> <<"s","e","q","u","e","n","c","e","s">>]] :
        o \in {[i \in 1..(Len(l) + 1) |->
                   IF i <= Len(l) THEN [kind |-> "pts", name |-> l[i]]
                   ELSE [kind |-> "", name |-> <<>>]] :
               l \in Orders({term \in PtsNames : Len(term) < 4})}}

\* send_sequences up to the list of terminals
send_sequences(p) ==
    /\ pc[p] = "send_sequences"
    /\ renders' = [renders EXCEPT ![p] = @ + 1]
    /\ IF send_sequences_raises(ColorType[p].plain)
       THEN /\ pc' = [pc EXCEPT ![p] = "crashed"]
            /\ err' = [err EXCEPT ![p] =
                          IF Len(ColorType[p].plain) < 16 THEN "IndexError"
                          ELSE "ValueError"]
            /\ UNCHANGED <<ColorType, sequences, terminals>>
       ELSE /\ pc' = [pc EXCEPT ![p] = "broadcast"]
            /\ err' = err
            /\ ColorType' = [ColorType EXCEPT ![p] =
                   send_sequences_build(@, ColorType[p].plain, args[p].t)]
            /\ sequences' = [sequences EXCEPT ![p] =
                   fix_escape(join(<<>>, ColorType'[p].sequences))]
            /\ \E l \in Terminals : terminals' = [terminals EXCEPT ![p] = l]
    /\ UNCHANGED <<args, raw_colors, index, colors, stdout, calls, hit,
                   schemes, cache, pts, sent, generated, runs>>

\* one save_file(sequences, term) of the list comprehension: open() raises
\* PermissionError on a terminal the user may not write
send_sequences_save(p) ==
    /\ pc[p] = "broadcast"
    /\ LET term == Head(terminals[p])
       IN  IF term.kind = "pts" /\ ~pts[term.name].writable
           THEN /\ pc' = [pc EXCEPT ![p] = "crashed"]
                /\ err' = [err EXCEPT ![p] = "PermissionError"]
                /\ UNCHANGED <<terminals, sent, cache>>
           ELSE /\ err' = err
                /\ terminals' = [terminals EXCEPT ![p] = Tail(@)]
                /\ pc' = [pc EXCEPT ![p] =
                              IF Tail(terminals[p]) = <<>>
                              THEN "export_colors" ELSE "broadcast"]
                /\ IF term.kind = "pts"
                   THEN /\ sent' = [sent EXCEPT
                                       ![p][term.name] = sequences[p]]
                        /\ cache' = cache
                   ELSE /\ cache' = [cache EXCEPT
                               !["sequences"] = save_file(sequences[p])]
                        /\ sent' = sent
    /\ UNCHANGED <<args, raw_colors, index, colors, ColorType, sequences,
                   stdout, renders, calls, hit, schemes, pts, generated,
                   runs>>

\* export_colors(ColorType.plain): the six documents
export_colors(p) ==
    /\ pc[p] = "export_colors"
    /\ ColorType' = [ColorType EXCEPT ![p] =
                        export_colors_build(@, ColorType[p].plain)]
    /\ cache' = [cache EXCEPT
           !["colors"] = save_colors(ColorType'[p].plain),
           !["colors.sh"] = save_colors(ColorType'[p].shell),
           !["colors.css"] = save_colors(ColorType'[p].css),
           !["colors.scss"] = save_colors(ColorType'[p].scss),
           !["colors-putty.reg"] = save_colors(ColorType'[p].putty),
           !["xcolors"] = save_colors(ColorType'[p].xrdb)]
    /\ pc' = [pc EXCEPT ![p] = "done"]
    /\ UNCHANGED <<args, raw_colors, index, colors, terminals, sequences,
                   stdout, err, renders, calls, hit, schemes, pts, sent, generated,
                   runs>>

\* the two render steps of process_args are called again in the same
\* interpreter, on the palette they were first called on
render_again(p) ==
    /\ pc[p] = "done"
    /\ renders[p] >= 1
    /\ renders[p] < MaxRenders
    /\ pc' = [pc EXCEPT ![p] = "send_sequences"]
    /\ UNCHANGED <<args, raw_colors, index, colors, ColorType, terminals,
                   sequences, stdout, err, renders, calls, hit, schemes,
                   cache, pts, sent, generated, runs>>

\* reload_colors(args.t)
reload_colors(p) ==
    /\ pc[p] = "reload_colors"
    /\ IF cache["sequences"].exists
       THEN LET read == join(<<>>, read_file(cache["sequences"]))
                sub  == IF args[p].t THEN re_sub_708(read) ELSE read
            IN  stdout' = [stdout EXCEPT ![p] = @ \o fix_escape(sub)]
       ELSE stdout' = stdout
    /\ pc' = [pc EXCEPT ![p] = "done"]
    /\ UNCHANGED <<args, raw_colors, index, colors, ColorType, terminals,
                   sequences, err, renders, calls, hit, schemes, cache, pts, sent,
                   generated, runs>>

\* the interpreter ends, with exit(0), at the end of main, or on an
\* exception nothing catches: what it held in memory is gone
process_exit(p) ==
    /\ pc[p] \in {"done", "crashed"}
    /\ pc' = [pc EXCEPT ![p] = "off"]
    /\ args' = [args EXCEPT ![p] = NoArgs]
    /\ raw_colors' = [raw_colors EXCEPT ![p] = <<>>]
    /\ index' = [index EXCEPT ![p] = 0]
    /\ colors' = [colors EXCEPT ![p] = <<>>]
    /\ ColorType' = [ColorType EXCEPT ![p] = ColorType0]
    /\ terminals' = [terminals EXCEPT ![p] = <<>>]
    /\ sequences' = [sequences EXCEPT ![p] = <<>>]
    /\ stdout' = [stdout EXCEPT ![p] = <<>>]
    /\ err' = [err EXCEPT ![p] = ""]
    /\ renders' = [renders EXCEPT ![p] = 0]
    /\ calls' = [calls EXCEPT ![p] = <<>>]
    /\ hit' = [hit EXCEPT ![p] = FALSE]
    /\ sent' = [sent EXCEPT ![p] = [n \in PtsNames |-> <<>>]]
    /\ UNCHANGED <<schemes, cache, pts, generated, runs>>

(***************************************************************************)
(* Spec: one process runs the program, MaxRuns times in a row.             *)
(***************************************************************************)
Next ==
    \E p \in {1} :
        \/ \E a \in ArgSets : main(p, a)
        \/ get_colors(p)
        \/ get_colors_read(p)
        \/ gen_colors(p)
        \/ gen_colors_retry(p)
        \/ gen_colors_return(p)
        \/ get_colors_sort(p)
        \/ get_colors_open(p)
        \/ get_colors_write(p)
        \/ send_sequences(p)
        \/ send_sequences_save(p)
        \/ export_colors(p)
        \/ render_again(p)
        \/ reload_colors(p)
        \/ process_exit(p)

Spec == Init /\ [][Next]_vars

(***************************************************************************)
(* SpecMapper: the Palette Mapper alone.  A run of get_colors stands at    *)
(* the call of sort_colors, on what gen_colors returned for a swatch       *)
(* family with any hex digit, in either case, as second character of       *)
(* color 0.                                                                *)
(***************************************************************************)
InitMapper ==
    \E d \in 0..15, upper \in BOOLEAN,
       count \in COLOR_COUNT..(COLOR_COUNT + MaxAttempts - 1) :
        LET out == Response([d |-> d, upper |-> upper], count, count)
        IN  /\ pc = [p \in Procs |-> IF p = 1 THEN "sort_colors" ELSE "off"]
            /\ args = [p \in Procs |->
                          IF p = 1 THEN [i |-> <<"/","c">>, t |-> FALSE, r |-> FALSE]
                          ELSE NoArgs]
            /\ raw_colors = [p \in Procs |-> IF p = 1 THEN out ELSE <<>>]
            /\ index = [p \in Procs |->
                           IF p = 1 THEN count - COLOR_COUNT ELSE 0]
            /\ colors = [p \in Procs |->
                            IF p = 1 THEN gen_colors_result(out) ELSE <<>>]
            /\ calls = [p \in Procs |->
                           IF p = 1
                           THEN [k \in 1..(count - COLOR_COUNT + 1) |->
                                    COLOR_COUNT + k - 1]
                           ELSE <<>>]
            /\ ColorType = Idle(ColorType0)
            /\ terminals = Idle(<<>>)
            /\ sequences = Idle(<<>>)
            /\ stdout = Idle(<<>>)
            /\ err = Idle("")
            /\ renders = Idle(0)
            /\ hit = Idle(FALSE)
            /\ schemes = [n \in {sanitize(img) : img \in Images} |-> NoFile]
            /\ cache = [n \in CacheNames |->
                           IF n = "wal" THEN save_file(<<"/","c">>) ELSE NoFile]
            /\ pts = [n \in PtsNames |-> [writable |-> TRUE]]
            /\ sent = Idle([n \in PtsNames |-> <<>>])
            /\ generated = [img \in Images |-> <<>>]
            /\ runs = 1

NextMapper == get_colors_sort(1)

SpecMapper == InitMapper /\ [][NextMapper]_vars

(***************************************************************************)
(* SpecRace: two invocations of get_colors for the same image run          *)
(* concurrently, in two processes, with no cache file to start with.       *)
(***************************************************************************)
InitRace ==
    /\ pc = Idle("get_colors")
    /\ args = Idle([i |-> <<"/","a","/","b">>, t |-> FALSE, r |-> FALSE])
    /\ raw_colors = Idle(<<>>)
    /\ index = Idle(0)
    /\ colors = Idle(<<>>)
    /\ ColorType = Idle(ColorType0)
    /\ terminals = Idle(<<>>)
    /\ sequences = Idle(<<>>)
    /\ stdout = Idle(<<>>)
    /\ err = Idle("")
    /\ renders = Idle(0)
    /\ calls = Idle(<<>>)
    /\ hit = Idle(FALSE)
    /\ schemes = [n \in {sanitize(img) : img \in Images} |-> NoFile]
    /\ cache = [n \in CacheNames |-> NoFile]
    /\ pts = [n \in PtsNames |-> [writable |-> TRUE]]
    /\ sent = Idle([n \in PtsNames |-> <<>>])
    /\ generated = [img \in Images |-> <<>>]
    /\ runs = 2

NextRace ==
    \E p \in Procs :
        \/ get_colors(p)
        \/ get_colors_read(p)
        \/ gen_colors(p)
        \/ gen_colors_retry(p)
        \/ gen_colors_return(p)
        \/ get_colors_sort(p)
        \/ get_colors_open(p)
        \/ get_colors_write(p)

SpecRace == InitRace /\ [][NextRace]_vars

(***************************************************************************)
(* Properties.                                                             *)
(***************************************************************************)
\* the grey table as the specification states it, by the second character
GreyFor(c) ==
    CASE c \in {"0", "1"}           -> <<"#","6","6","6","6","6","6">>
      [] c = "2"                    -> <<"#","7","5","7","5","7","5">>
      [] c \in {"3", "4"}           -> <<"#","9","9","9","9","9","9">>
      [] c = "5"                    -> <<"#","8","a","8","a","8","a">>
      [] c \in {"6", "7", "8", "9"} -> <<"#","a","1","a","1","a","1">>

\* process p performs the call of sort_colors in this step
SortStep(p) == pc[p] = "sort_colors" /\ pc'[p] /= "sort_colors"

\* C1: grey selection.  For every raw swatch set of at least 16 entries,
\* sort_colors returns a palette; when the second character of raw[0] is a
\* decimal digit, palette[8] is the grey table's entry for that digit, and
\* when it is one of a..f, palette[8] is raw[7].
C1_GreySelection ==
    [][\A p \in Procs :
          SortStep(p) /\ Len(colors[p]) >= 16 =>
              LET c == colors[p][1][2]
              IN  /\ IsDigit(c) =>
                         /\ pc'[p] = "save_open"
                         /\ colors'[p][9] = GreyFor(c)
                  /\ c \in {"a", "b", "c", "d", "e", "f"} =>
                         /\ pc'[p] = "save_open"
                         /\ colors'[p][9] = colors[p][8]]_vars

\* the half of C1 that the code meets: the decimal digits
C1_DigitsOnly ==
    [][\A p \in Procs :
          SortStep(p) /\ Len(colors[p]) >= 16 /\ IsDigit(colors[p][1][2]) =>
              /\ pc'[p] = "save_open"
              /\ colors'[p][9] = GreyFor(colors[p][1][2])]_vars

\* C5: mapper shape.  For every raw swatch set of at least 16 entries,
\* sort_colors returns a palette of exactly 16 entries with palette[0] =
\* raw[0], palette[i] = raw[i+8] and palette[i] = palette[i+8] for i in 1..7,
\* and with none of raw[1..6], raw[8] in it.
C5_MapperShape ==
    [][\A p \in Procs :
          SortStep(p) /\ Len(colors[p]) >= 16 =>
              /\ pc'[p] = "save_open"
              /\ Len(colors'[p]) = 16
              /\ colors'[p][1] = colors[p][1]
              /\ \A i \in 1..7 : /\ colors'[p][i + 1] = colors[p][i + 9]
                                 /\ colors'[p][i + 1] = colors'[p][i + 9]
              /\ \A j \in {2, 3, 4, 5, 6, 7, 9} : \A i \in 1..16 :
                     colors'[p][i] /= colors[p][j]]_vars

\* the shape of C5 on the swatch sets for which sort_colors returns
C5_ShapeWhenReturned ==
    [][\A p \in Procs :
          SortStep(p) /\ pc'[p] = "save_open" =>
              /\ Len(colors'[p]) = 16
              /\ colors'[p][1] = colors[p][1]
              /\ \A i \in 1..7 : /\ colors'[p][i + 1] = colors[p][i + 9]
                                 /\ colors'[p][i + 1] = colors'[p][i + 9]
              /\ \A j \in {2, 3, 4, 5, 6, 7, 9} : \A i \in 1..16 :
                     colors'[p][i] /= colors[p][j]]_vars

\* get_colors has returned to process_args in process p
Returned(p) ==
    /\ ~args[p].r
    /\ \/ pc[p] \in {"send_sequences", "broadcast", "export_colors", "done"}
       \/ renders[p] >= 1

\* the targets of a broadcast that are terminals
ShortPts == {<<"0">>, <<"1">>}

\* the broadcast of process p has ended: every write was made, or one raised
BroadcastEnded(p) ==
    \/ pc[p] = "export_colors"
    \/ pc[p] = "crashed" /\ err[p] = "PermissionError"

\* C2: broadcast.  When the broadcast ends, every terminal whose own write
\* can succeed, and the sequences file, hold the full blob, and the run goes
\* on to the export step.
C2_Broadcast ==
    \A p \in Procs :
        BroadcastEnded(p) =>
            /\ pc[p] = "export_colors"
            /\ \A n \in ShortPts :
                   pts[n].writable => sent[p][n] = sequences[p]
            /\ cache["sequences"] = [exists |-> TRUE, data |-> sequences[p]]

\* the broadcast in which no write fails delivers the blob everywhere
C2_AllWritable ==
    \A p \in Procs :
        BroadcastEnded(p) /\ (\A n \in ShortPts : pts[n].writable) =>
            /\ pc[p] = "export_colors"
            /\ \A n \in ShortPts : sent[p][n] = sequences[p]
            /\ cache["sequences"] = [exists |-> TRUE, data |-> sequences[p]]

ExportNames == {"colors", "colors.sh", "colors.css", "colors.scss",
                "colors-putty.reg", "xcolors"}

\* C3: export idempotence.  Rendering the six documents again, by a second
\* send_sequences and export_colors on the unchanged palette, writes for
\* each document the bytes the first rendering wrote.
C3_ExportIdempotent ==
    [][\A p \in Procs :
          pc[p] = "export_colors" /\ renders[p] >= 2 /\ pc'[p] = "done" =>
              \A n \in ExportNames : cache'[n] = cache[n]]_vars

\* what C3 leaves true of the code: the plain document is rendered alike
C3_PlainOnly ==
    [][\A p \in Procs :
          pc[p] = "export_colors" /\ renders[p] >= 2 /\ pc'[p] = "done" =>
              cache'["colors"] = cache["colors"]]_vars

\* the name of the cache file of an image: every "/" replaced by "_"
SanitizedName(img) == IF img = <<"/","a","/","b">> THEN <<"_","a","_","b">> ELSE <<"_","c">>

\* the lines of a text whose lines end in a line feed
RECURSIVE LinesOf(_)
LinesOf(s) ==
    IF s = <<>> THEN <<>>
    ELSE LET nl == {i \in 1..Len(s) : s[i] = "\n"}
             e  == IF nl = {} THEN Len(s) + 1
                   ELSE CHOOSE i \in nl : \A j \in nl : i <= j
         IN  <<SubSeq(s, 1, e - 1)>> \o LinesOf(SubSeq(s, e + 1, Len(s)))

\* C4: cache short-circuit.  When get_colors finds the cache file of the
\* image, it invokes the quantizer zero times, does not rewrite the file, and
\* returns the lines of the file, in order and unchanged, whatever their
\* number or form.
C4_CacheShortCircuit ==
    /\ [](\A p \in Procs :
             hit[p] /\ Returned(p) =>
                 /\ calls[p] = <<>>
                 /\ schemes[SanitizedName(args[p].i)].exists
                 /\ ColorType[p].plain =
                        LinesOf(schemes[SanitizedName(args[p].i)].data))
    /\ [][\A p \in Procs : hit'[p] => schemes' = schemes]_vars

\* a cache file of two lines is returned as a palette of two entries
C4_Witness ==
    \E p \in Procs :
        /\ hit[p]
        /\ pc[p] = "send_sequences"
        /\ Len(ColorType[p].plain) = 2

\* C6: quantizer retry.  The counts requested are 16, 17, 18, ..., one
\* invocation each; a further invocation follows only a response of fewer
\* than 16 color lines; gen_colors returns only on a response of at least 16
\* color lines, and returns one entry per color line of that response, in
\* order, and nothing of an earlier response.
C6_QuantizerRetry ==
    /\ [](\A p \in Procs :
             /\ \A k \in 1..Len(calls[p]) : calls[p][k] = 15 + k
             /\ pc[p] = "gen_loop" /\ Len(raw_colors[p]) - 1 < 16
                    /\ Len(calls[p]) < MaxAttempts =>
                        /\ ENABLED gen_colors_retry(p)
                        /\ ~ENABLED gen_colors_return(p)
             /\ pc[p] = "sort_colors" =>
                    LET n == Len(raw_colors[p]) - 1
                    IN  /\ n >= 16
                        /\ colors[p] =
                               [k \in 1..n |->
                                   SwatchColor(Family(args[p].i),
                                               calls[p][Len(calls[p])],
                                               k - 1)])
    /\ [][\A p \in Procs :
             /\ pc[p] = "gen_colors" /\ pc'[p] /= pc[p] =>
                    calls'[p] = <<16>>
             /\ pc[p] = "gen_loop" /\ calls'[p] /= calls[p] =>
                    /\ Len(raw_colors[p]) - 1 < 16
                    /\ Len(calls'[p]) = Len(calls[p]) + 1
             /\ pc[p] = "gen_loop" /\ pc'[p] /= "gen_loop" =>
                    /\ Len(raw_colors[p]) - 1 >= 16
                    /\ calls'[p] = calls[p]
                    /\ pc'[p] = "sort_colors"]_vars

\* gen_colors returns 17 entries from the response to its second request
C6_Witness ==
    \E p \in Procs :
        /\ pc[p] = "sort_colors"
        /\ calls[p] = <<16, 17>>
        /\ Len(colors[p]) = 17

\* the fragment ESC ] idx ; color BEL of the terminal control protocol
Frag(idx, color) == <<"ESC", "]">> \o idx \o <<";">> \o color \o <<"BEL">>

\* the decimal numerals of the slots
SlotNumeral ==
    << <<"0">>, <<"1">>, <<"2">>, <<"3">>, <<"4">>, <<"5">>, <<"6">>, <<"7">>, <<"8">>, <<"9">>, <<"1","0">>,
       <<"1","1">>, <<"1","2">>, <<"1","3">>, <<"1","4">>, <<"1","5">>, <<"1","6">> >>

\* the fragments the Sequence Builder is specified to emit for a palette P:
\* the specials 10 to 14, the fragment for 708 unless vteSafe, the indexed
\* fragments in slot order, and the two fragments of slot 66
ExpectedFragments(P, vteSafe) ==
    << Frag(<<"1","0">>, P[16]), Frag(<<"1","1">>, P[1]), Frag(<<"1","2">>, P[16]),
       Frag(<<"1","3">>, P[16]), Frag(<<"1","4">>, P[1]) >>
        \o (IF vteSafe THEN <<>> ELSE << Frag(<<"7","0","8">>, P[1]) >>)
        \o [i \in 1..Len(P) |-> Frag(<<"4",";">> \o SlotNumeral[i], P[i])]
        \o << Frag(<<"6","6">>, P[1]), Frag(<<"4",";","6","6">>, P[1]) >>

RECURSIVE Concat(_)
Concat(frags) ==
    IF frags = <<>> THEN <<>> ELSE Head(frags) \o Concat(Tail(frags))

ExpectedBlob(P, vteSafe) == Concat(ExpectedFragments(P, vteSafe))

\* a blob cut after each BEL
RECURSIVE FragmentsOf(_)
FragmentsOf(blob) ==
    IF blob = <<>> THEN <<>>
    ELSE LET bel == {i \in 1..Len(blob) : blob[i] = "BEL"}
             e   == IF bel = {} THEN Len(blob)
                    ELSE CHOOSE i \in bel : \A j \in bel : i <= j
         IN  <<SubSeq(blob, 1, e)>>
                 \o FragmentsOf(SubSeq(blob, e + 1, Len(blob)))

\* a fragment that addresses the special index 708
Is708(frag) ==
    Len(frag) >= 6 /\ SubSeq(frag, 1, 6) = <<"ESC", "]", "7", "0", "8", ";">>

\* C7: vte-safe gating.  After one send_sequences on a palette of 16 slots
\* and empty accumulators: with vteSafe the blob has no fragment for 708;
\* without it the blob has exactly one, bound to slot 0, after the specials
\* 10 to 14 and before the indexed fragments; all other fragments are the
\* same, in the same order, for both values of the flag.
C7_VteGating ==
    \A p \in Procs :
        pc[p] = "broadcast" /\ renders[p] = 1
            /\ Len(ColorType[p].plain) = 16 =>
            LET P     == ColorType[p].plain
                frags == FragmentsOf(sequences[p])
                other == FragmentsOf(fix_escape(join(<<>>,
                             send_sequences_build(ColorType0, P,
                                                  ~args[p].t).sequences)))
                at708 == {i \in 1..Len(frags) : Is708(frags[i])}
            IN  /\ frags = ExpectedFragments(P, args[p].t)
                /\ args[p].t => at708 = {}
                /\ ~args[p].t => /\ at708 = {6}
                                 /\ frags[6] = Frag(<<"7","0","8">>, P[1])
                /\ SelectSeq(frags, LAMBDA f : ~Is708(f))
                       = SelectSeq(other, LAMBDA f : ~Is708(f))

\* a blob built without vteSafe, holding the fragment for 708
C7_Witness ==
    \E p \in Procs :
        /\ pc[p] = "broadcast"
        /\ renders[p] = 1
        /\ ~args[p].t
        /\ Len(ColorType[p].plain) = 16
        /\ \E i \in 1..Len(FragmentsOf(sequences[p])) :
               Is708(FragmentsOf(sequences[p])[i])

\* C8: reload.  When the sequences file is the blob of a palette built
\* without vteSafe, reload_colors with vteSafe writes to standard output the
\* blob of that palette built with vteSafe; without vteSafe it writes the
\* file's bytes unchanged; then the process ends with status 0.
C8_Reload ==
    \A p \in Procs :
        pc[p] \in {"done", "crashed"} /\ args[p].r
            /\ cache["sequences"].exists /\ cache["colors"].exists =>
            LET P    == LinesOf(cache["colors"].data)
                file == cache["sequences"].data
            IN  /\ pc[p] = "done"
                /\ ~args[p].t => stdout[p] = file
                /\ args[p].t /\ Len(P) >= 16
                       /\ file = ExpectedBlob(P, FALSE) =>
                       stdout[p] = ExpectedBlob(P, TRUE)

\* what C8 leaves true of the code: without vteSafe the file is written
\* unchanged, and the process ends with status 0
C8_Unchanged ==
    \A p \in Procs :
        pc[p] \in {"done", "crashed"} /\ args[p].r
            /\ cache["sequences"].exists =>
            /\ pc[p] = "done"
            /\ ~args[p].t => stdout[p] = cache["sequences"].data

\* every entry of a palette is "#" and six hex digits
HexPalette(P) ==
    \A i \in 1..Len(P) :
        /\ Len(P[i]) = 7
        /\ P[i][1] = "#"
        /\ \A j \in 2..7 : IsHex(P[i][j])

\* C9: plain-form round trip.  For a palette of 16 hex strings, read_file
\* of the scheme cache file written on a cache miss, and read_file of the
\* colors document, give back the palette; and a generation for an image
\* that follows a completed cache-miss generation for it returns the palette
\* the first returned.
C9_RoundTrip ==
    \A p \in Procs :
        LET P == ColorType[p].plain
        IN  /\ Returned(p) /\ ~hit[p] /\ Len(P) = 16 /\ HexPalette(P) =>
                   read_file(schemes[sanitize(args[p].i)]) = P
            /\ pc[p] = "done" /\ ~args[p].r
                   /\ Len(P) = 16 /\ HexPalette(P) =>
                   read_file(cache["colors"]) = P
            /\ Returned(p) /\ generated[args[p].i] /= <<>> =>
                   P = generated[args[p].i]

\* a cache hit that follows a cache-miss generation for the same image, run
\* to the end of the export
C9_Witness ==
    \E p \in Procs :
        /\ hit[p]
        /\ pc[p] = "done"
        /\ generated[args[p].i] /= <<>>
        /\ read_file(cache["colors"]) = generated[args[p].i]

\* C10: cache race.  Two concurrent invocations of get_colors for one image,
\* no cache file to start with: an invocation on the cache-hit path invokes
\* no quantizer, and the palette it returns is incomplete only when the
\* other invocation has opened the cache file and not yet written it
\* (C10_Witness is such a return); each write leaves the writer's palette in
\* the file, so that when both have missed, both have invoked the quantizer
\* and the file holds the palette of the invocation that wrote last.
C10_CacheRace ==
    /\ [](/\ \A p \in Procs :
                 Returned(p) /\ hit[p] => calls[p] = <<>>
          /\ (\A p \in Procs : Returned(p) /\ ~hit[p]) =>
                 /\ \A p \in Procs : calls[p] /= <<>>
                 /\ \E q \in Procs :
                        LinesOf(schemes[<<"_","a","_","b">>].data) = ColorType[q].plain)
    /\ [][\A p \in Procs :
             /\ pc[p] = "save_write" /\ pc'[p] /= pc[p] =>
                    LinesOf(schemes'[<<"_","a","_","b">>].data) = colors[p]
             /\ pc[p] = "read_file" /\ pc'[p] /= pc[p]
                    /\ Len(colors'[p]) < 16 =>
                    /\ colors'[p] = <<>>
                    /\ \E q \in Procs \ {p} : pc[q] = "save_write"]_vars

\* an invocation has taken the cache-hit path on the file the other has
\* opened and not yet written, and has returned an empty palette
C10_Witness ==
    \E p \in Procs, q \in Procs :
        /\ p /= q
        /\ pc[p] = "send_sequences"
        /\ hit[p]
        /\ Len(ColorType[p].plain) < 16
        /\ pc[q] = "save_write"

\* both invocations have missed and generated different palettes, and the
\* cache file holds one of the two
C10_BothMissed ==
    /\ \A p \in Procs : pc[p] = "send_sequences" /\ ~hit[p]
    /\ ColorType[1].plain /= ColorType[2].plain
    /\ LinesOf(schemes[<<"_","a","_","b">>].data) = ColorType[1].plain
=============================================================================
